---- MODULE Spec2Model ----
(***************************************************************************)
(* Model of the transcription workflow of dragonspeak-service.             *)
(*                                                                         *)
(* The orchestrator is app.TranscriptionManager (src/unnamed/part_004),    *)
(* the version main.go wires: it is built with app.DefaultUUIDProvider,    *)
(* filestorage.S3Filestore and transcription.AmazonTranscription.          *)
(*                                                                         *)
(* Go strings are sequences of atoms: an atom is either the path separator *)
(* "/" or a piece of text holding no separator.  Byte streams are          *)
(* sequences of byte atoms.  A Go error is the chain of the errors it      *)
(* wraps, outermost first; nil is the empty chain.                         *)
(*                                                                         *)
(* Spec       concurrent SubmitTranscriptionJob calls.                     *)
(* SpecOps    submissions one at a time, the provider finishing jobs, and  *)
(*            the three read handlers of presentation.HttpAPI.             *)
(* SpecCancel concurrent submissions whose request context may be          *)
(*            cancelled in flight.                                         *)
(* SpecHttp   submissions through the HTTP endpoint, one at a time.        *)
(* SpecIds    submissions one at a time under the identifier sources.      *)
(* SpecCreate the create handlers of presentation.HttpAPI, each applied to *)
(*            a request drawn in the initial state.                        *)
(* SpecFunctions  the parsers, handleError and the provider's request,     *)
(*            each applied to an input drawn in the initial state.         *)
(***************************************************************************)
EXTENDS Integers, Sequences, FiniteSets, TLC

\* ------------------------------------------------------------------ bounds

\* number of SubmitTranscriptionJob calls that may run concurrently
NumCalls == 2

Calls == 1..NumCalls

\* --------------------------------------------------------- models/models.go

NotStarted == 0
Transcribing == 1
Summarizing == 2
Done == 3
TranscriptionFailed == 4
SummarizingFailed == 5

MP3 == 0
MP4 == 1
WAV == 2
FLAC == 3
AMR == 4
OGG == 5
WebM == 6

transcriptStatusStrings ==
    <<"NotStarted", "Transcribing", "Summarizing", "Done",
      "TranscriptionFailed", "SummarizingFailed">>

\* TranscriptStatus.String
TranscriptStatusString(t) == transcriptStatusStrings[t + 1]

\* the zero value models.Transcript{}
Transcript ==
    [JobID |-> <<>>, AudioLocation |-> <<>>, AudioFormat |-> 0,
     TranscriptLocation |-> <<>>, SummaryLocation |-> <<>>, Status |-> 0]

\* ------------------------------------------------------------------ errors

NoErr == <<>>

\* errors.Is(err, target): target is err or one of the errors err wraps
Is(err, target) ==
    /\ target # NoErr
    /\ \E i \in 1..Len(err) : SubSeq(err, i, Len(err)) = target

\* models/customerrors.go
EntityNotFound == <<"Entity Not Found">>
EntityAlreadyExists == <<"Entity already exists">>
InvalidEntity == <<"Entity Is Invalid">>
Conflicted == <<"Conflicted">>

\* the failures the collaborators of a call can answer with
dbError == <<"db error">>
fileStoreError == <<"file store error">>
transcriptionJobError == <<"transcription job error">>

\* ------------------------------------------- the strings of the enumerations

UpperCase == "ABCDEFGHIJKLMNOPQRSTUVWXYZ"
LowerCase == "abcdefghijklmnopqrstuvwxyz"

\* the place of the one-character string ch in letters, 0 when it is not there
RECURSIVE IndexOf(_, _, _)
IndexOf(letters, ch, i) ==
    IF i > Len(letters) THEN 0
    ELSE IF SubSeq(letters, i, i) = ch THEN i
    ELSE IndexOf(letters, ch, i + 1)

\* the letter of the other case; ch itself when ch is no letter
SwapChar(ch) ==
    IF IndexOf(UpperCase, ch, 1) # 0
    THEN SubSeq(LowerCase, IndexOf(UpperCase, ch, 1), IndexOf(UpperCase, ch, 1))
    ELSE IF IndexOf(LowerCase, ch, 1) # 0
    THEN SubSeq(UpperCase, IndexOf(LowerCase, ch, 1), IndexOf(LowerCase, ch, 1))
    ELSE ch

\* unicode.SimpleFold on the characters the model uses: two characters fold
\* together when they are the same or the two cases of one letter
FoldsTo(a, b) == a = b \/ SwapChar(a) = b

\* strings.EqualFold
EqualFold(str1, str2) ==
    /\ Len(str1) = Len(str2)
    /\ \A i \in 1..Len(str1) : FoldsTo(SubSeq(str1, i, i), SubSeq(str2, i, i))

\* the first entry of the table that folds to str, 0 when there is none:
\* for i, s := range table { if strings.EqualFold(s, str) {...} }
RECURSIVE IndexFold(_, _, _)
IndexFold(table, str, i) ==
    IF i > Len(table) THEN 0
    ELSE IF EqualFold(table[i], str) THEN i
    ELSE IndexFold(table, str, i + 1)

audioFormatStrings == <<"MP3", "MP4", "WAV", "FLAC", "AMR", "OGG", "WebM">>

\* AudioFormat.String: an index outside the table panics
AudioFormatString(a) ==
    IF a + 1 \in DOMAIN audioFormatStrings
    THEN [val |-> audioFormatStrings[a + 1], panicked |-> FALSE]
    ELSE [val |-> "", panicked |-> TRUE]

\* variant of AudioFormatFromString: the names are matched as they are written
AudioFormatFromStringExact(str) ==
    IF \E i \in DOMAIN audioFormatStrings : audioFormatStrings[i] = str
    THEN [val |-> (CHOOSE i \in DOMAIN audioFormatStrings :
                       audioFormatStrings[i] = str) - 1,
          err |-> NoErr]
    ELSE [val |-> 0, err |-> <<"invalid AudioFormat: " \o str>>]

\* models.AudioFormatFromString
AudioFormatFromString(str) ==
    IF IndexFold(audioFormatStrings, str, 1) # 0
    THEN [val |-> IndexFold(audioFormatStrings, str, 1) - 1, err |-> NoErr]
    ELSE [val |-> 0, err |-> <<"invalid AudioFormat: " \o str>>]

\* variant of TranscriptStatusFromString: the place in the table is returned
\* as it is counted here, from 1
TranscriptStatusFromStringFromOne(str) ==
    IF IndexFold(transcriptStatusStrings, str, 1) # 0
    THEN [val |-> IndexFold(transcriptStatusStrings, str, 1), err |-> NoErr]
    ELSE [val |-> 0, err |-> <<"invalid TranscriptStatus: " \o str>>]

\* models.TranscriptStatusFromString
TranscriptStatusFromString(str) ==
    IF IndexFold(transcriptStatusStrings, str, 1) # 0
    THEN [val |-> IndexFold(transcriptStatusStrings, str, 1) - 1, err |-> NoErr]
    ELSE [val |-> 0, err |-> <<"invalid TranscriptStatus: " \o str>>]

\* ------------------------------------------------------------------ inputs

UserIDs == {<<"user1">>}
CampaignIDs == {<<"campaign1">>}
SessionIDs == {<<"session0">>, <<"session1">>}
InputFormats == {MP3, OGG}
AudioFiles == {<<"b1">>, <<"b2", "b3">>}

\* the requests a call is made with: every two values of two arguments meet
Requests ==
    {r \in [userID : UserIDs, campaignID : CampaignIDs, sessionID : SessionIDs,
            audioFormat : InputFormats, audioFile : AudioFiles] :
        (r.sessionID = <<"session0">>) =
            ((r.audioFormat = MP3) = (r.audioFile = <<"b1">>))}

\* t.bucket, the bucket main.go passes to NewTranscriptionManager
bucket == <<"s3Bucket">>

\* --------------------------------------------------------- pure functions

\* strings.LastIndex(path, "/"), 0 when there is none
RECURSIVE LastSlash(_)
LastSlash(path) ==
    IF path = <<>> THEN 0
    ELSE IF path[Len(path)] = "/" THEN Len(path)
    ELSE LastSlash(SubSeq(path, 1, Len(path) - 1))

\* path with its trailing separators removed
RECURSIVE StripTrailingSlashes(_)
StripTrailingSlashes(path) ==
    IF path # <<>> /\ path[Len(path)] = "/"
    THEN StripTrailingSlashes(SubSeq(path, 1, Len(path) - 1))
    ELSE path

\* path/filepath.Base as S3Filestore.UploadData applies it to the file key
Base(path) ==
    IF path = <<>> THEN <<".">>
    ELSE LET p == StripTrailingSlashes(path)
             q == SubSeq(p, LastSlash(p) + 1, Len(p))
         IN  IF q = <<>> THEN <<"/">> ELSE q

\* variant of NewUUID: an identifier source that repeats itself
NewUUIDFixed(n) == <<"testUUID">>

\* DefaultUUIDProvider.NewUUID: the n-th identifier the generator hands out;
\* a version-1 UUID is hexadecimal digits and dashes, no separator
NewUUID(n) == <<"uuid", ToString(n)>>

\* jobID := t.uuidProvider.NewUUID()
JobIDFor(userID, campaignID, sessionID, u) == u

\* variant of AudioLocationFor: the key carries the user, campaign and session
AudioLocationHierarchical(userID, campaignID, sessionID, u) ==
    userID \o <<"/">> \o campaignID \o <<"/">> \o sessionID \o <<"/">>
           \o <<"audio-">> \o u

\* audioLocation := fmt.Sprintf("audio-%s", t.uuidProvider.NewUUID())
AudioLocationFor(userID, campaignID, sessionID, u) == <<"audio-">> \o u

\* variant of TranscriptLocationFor: the prefix of the audio location is used
TranscriptLocationAsAudio(userID, campaignID, sessionID, u) == <<"audio-">> \o u

\* transcriptLocation := fmt.Sprintf("transcript-%s", t.uuidProvider.NewUUID())
TranscriptLocationFor(userID, campaignID, sessionID, u) == <<"transcript-">> \o u

\* variant of NewTranscriptionJob: Status is left at its zero value
NewTranscriptionJobNoStatus(jobID, audioLocation, audioFormat, transcriptLocation) ==
    [Transcript EXCEPT !.JobID = jobID,
                       !.AudioLocation = audioLocation,
                       !.AudioFormat = audioFormat,
                       !.TranscriptLocation = transcriptLocation]

\* transcriptionJob := models.Transcript{...}
NewTranscriptionJob(jobID, audioLocation, audioFormat, transcriptLocation) ==
    [Transcript EXCEPT !.JobID = jobID,
                       !.AudioLocation = audioLocation,
                       !.AudioFormat = audioFormat,
                       !.TranscriptLocation = transcriptLocation,
                       !.Status = Transcribing]

\* ------------------------------------------------------------------- state

VARIABLES
    transcripts,   \* persistence collaborator: the rows of SessionTranscripts
    files,         \* blob store: object body by <<bucket, key>>
    jobs,          \* transcription provider: the jobs it has accepted
    uuidCount,     \* identifiers the generator has handed out
    call,          \* the SubmitTranscriptionJob calls
    reply          \* what the read request just served has answered

vars == <<transcripts, files, jobs, uuidCount, call, reply>>

NilResult == [isNil |-> TRUE, val |-> Transcript]

\* no StartTranscriptionJob arguments captured yet
NoArgs ==
    [jobName |-> <<>>, audioLocation |-> <<>>, resultLocation |-> <<>>,
     audioFormat |-> 0]

IdleCall ==
    [pc |-> "idle",
     userID |-> <<>>, campaignID |-> <<>>, sessionID |-> <<>>,
     audioFormat |-> 0, audioFile |-> <<>>,
     uuids |-> <<>>,
     transcriptionJob |-> Transcript,
     events |-> <<>>,
     capturedArgs |-> NoArgs,
     ctxDoneAt |-> "",
     result |-> NilResult, err |-> NoErr]

\* no read request has just been served
NoReply ==
    [op |-> "none", arg |-> <<>>, isNil |-> TRUE, val |-> Transcript,
     list |-> <<>>, n |-> 0, data |-> <<>>, err |-> NoErr,
     lookupErr |-> NoErr, fetchErr |-> NoErr, downloadCalls |-> 0,
     panicked |-> FALSE, code |-> 0, body |-> <<>>,
     decodeErr |-> NoErr, responses |-> <<>>, managerCalls |-> 0,
     created |-> <<>>]

Init ==
    /\ reply = NoReply
    /\ transcripts = <<>>
    /\ files = [k \in {} |-> <<>>]
    /\ jobs = {}
    /\ uuidCount = 0
    /\ call = [c \in Calls |-> IdleCall]

\* --------------------------------------------------------- collaborators

Invoked(op) == [kind |-> "call", op |-> op, err |-> NoErr]
Returned(op, err) == [kind |-> "return", op |-> op, err |-> err]

\* variant of AddTranscriptToSession: answers nil without storing the row
AddTranscriptToSessionNoInsert(db, sessionID, transcript, outcome) ==
    IF outcome # NoErr
    THEN [db |-> db, isNil |-> TRUE, val |-> Transcript, err |-> outcome]
    ELSE [db |-> db, isNil |-> FALSE, val |-> transcript, err |-> NoErr]

\* variant of AddTranscriptToSession: one row per session, a new transcript
\* takes the place of the session's earlier one
AddTranscriptToSessionUpsert(db, sessionID, transcript, outcome) ==
    IF outcome # NoErr
    THEN [db |-> db, isNil |-> TRUE, val |-> Transcript, err |-> outcome]
    ELSE [db |-> Append(SelectSeq(db, LAMBDA r : r.SessionId # sessionID),
                        [SessionId |-> sessionID, transcript |-> transcript]),
          isNil |-> FALSE, val |-> transcript, err |-> NoErr]

\* transcriptionDb.AddTranscriptToSession, by the contract of the interface the
\* orchestrator is written against: a nil error means the row is stored, a
\* failed insert stores nothing
AddTranscriptToSession(db, sessionID, transcript, outcome) ==
    IF outcome # NoErr
    THEN [db |-> db, isNil |-> TRUE, val |-> Transcript, err |-> outcome]
    ELSE [db |-> Append(db, [SessionId |-> sessionID, transcript |-> transcript]),
          isNil |-> FALSE, val |-> transcript, err |-> NoErr]

\* the rows of the store whose TranscriptionJobId is jobID
RowsOfJob(db, jobID) ==
    {i \in 1..Len(db) : db[i].transcript.JobID = jobID}

\* variant of GetTranscript: no row is answered with the driver's own error
GetTranscriptOpaque(db, jobID) ==
    IF RowsOfJob(db, jobID) = {}
    THEN [isNil |-> TRUE, val |-> Transcript,
          err |-> <<"sql: no rows in result set">>]
    ELSE LET i == CHOOSE j \in RowsOfJob(db, jobID) :
                      \A k \in RowsOfJob(db, jobID) : j <= k
         IN  [isNil |-> FALSE, val |-> db[i].transcript, err |-> NoErr]

\* transcriptionDb.GetTranscript on a store that answers
GetTranscript(db, jobID) ==
    IF RowsOfJob(db, jobID) = {}
    THEN [isNil |-> TRUE, val |-> Transcript, err |-> EntityNotFound]
    ELSE LET i == CHOOSE j \in RowsOfJob(db, jobID) :
                      \A k \in RowsOfJob(db, jobID) : j <= k
         IN  [isNil |-> FALSE, val |-> db[i].transcript, err |-> NoErr]

\* TranscriptionManager.GetTranscriptJob: delegation to the persistence lookup
GetTranscriptJob(db, jobID) == GetTranscript(db, jobID)

\* S3Filestore.UploadData: the object is written under filepath.Base(fileKey)
UploadData(fs, bkt, fileKey, body, outcome) ==
    IF outcome # NoErr
    THEN [files |-> fs, err |-> outcome]
    ELSE LET key == <<bkt, Base(fileKey)>>
         IN  [files |-> [k \in DOMAIN fs \cup {key} |->
                            IF k = key THEN body ELSE fs[k]],
              err |-> NoErr]

\* S3Filestore.DownloadData: the object is read under fileKey itself
DownloadData(fs, bkt, fileKey) ==
    IF <<bkt, fileKey>> \in DOMAIN fs
    THEN [n |-> Len(fs[<<bkt, fileKey>>]), data |-> fs[<<bkt, fileKey>>],
          err |-> NoErr]
    ELSE [n |-> 0, data |-> <<>>, err |-> <<"NoSuchKey">>]

\* transcription.audioFormatToMediaString: the default branch formats its
\* error with audioFormat.String(), which panics for a value outside the table
audioFormatToMediaString(audioFormat) ==
    CASE audioFormat = MP3 -> [val |-> "mp3", err |-> NoErr, panicked |-> FALSE]
      [] audioFormat = MP4 -> [val |-> "mp4", err |-> NoErr, panicked |-> FALSE]
      [] audioFormat = WAV -> [val |-> "wav", err |-> NoErr, panicked |-> FALSE]
      [] audioFormat = FLAC -> [val |-> "flac", err |-> NoErr, panicked |-> FALSE]
      [] audioFormat = AMR -> [val |-> "amr", err |-> NoErr, panicked |-> FALSE]
      [] audioFormat = OGG -> [val |-> "ogg", err |-> NoErr, panicked |-> FALSE]
      [] audioFormat = WebM -> [val |-> "webm", err |-> NoErr, panicked |-> FALSE]
      [] OTHER ->
           IF AudioFormatString(audioFormat).panicked
           THEN [val |-> "", err |-> NoErr, panicked |-> TRUE]
           ELSE [val |-> "",
                 err |-> <<"unsupported media format: " \o
                             AudioFormatString(audioFormat).val>>,
                 panicked |-> FALSE]

\* AmazonTranscription.StartTranscriptionJob
StartTranscriptionJob(js, jobName, audioLocation, resultLocation, audioFormat, outcome) ==
    LET mediaFormat == audioFormatToMediaString(audioFormat)
    IN  IF mediaFormat.panicked
        THEN [jobs |-> js, err |-> NoErr, panicked |-> TRUE]
        ELSE IF mediaFormat.err # NoErr
        THEN [jobs |-> js, err |-> mediaFormat.err, panicked |-> FALSE]
        ELSE IF outcome # NoErr
        THEN [jobs |-> js, err |-> outcome, panicked |-> FALSE]
        ELSE [jobs |-> js \cup
                  {[TranscriptionJobName |-> jobName,
                    MediaFormat |-> mediaFormat.val,
                    MediaFileUri |-> <<"s3:", "/", "/", "dragonspeak-files", "/">>
                                        \o audioLocation,
                    OutputBucketName |-> bucket,
                    OutputKey |-> resultLocation]},
              err |-> NoErr, panicked |-> FALSE]

\* ------------------------------------------------- SubmitTranscriptionJob

\* entry of SubmitTranscriptionJob up to the call of AddTranscriptToSession,
\* for the request req and the three identifiers the source hands out: the
\* record is assembled
SubmitBeginWith(c, req, u1, u2, u3) ==
    LET userID == req.userID
        campaignID == req.campaignID
        sessionID == req.sessionID
        audioFormat == req.audioFormat
        audioFile == req.audioFile
        jobID == JobIDFor(userID, campaignID, sessionID, u1)
        audioLocation == AudioLocationFor(userID, campaignID, sessionID, u2)
        transcriptLocation ==
            TranscriptLocationFor(userID, campaignID, sessionID, u3)
    IN  call' = [call EXCEPT ![c] =
                   [@ EXCEPT !.pc = "persist",
                             !.userID = userID,
                             !.campaignID = campaignID,
                             !.sessionID = sessionID,
                             !.audioFormat = audioFormat,
                             !.audioFile = audioFile,
                             !.uuids = <<u1, u2, u3>>,
                             !.transcriptionJob =
                                 NewTranscriptionJob(jobID, audioLocation,
                                     audioFormat, transcriptLocation),
                             !.events = <<Invoked("AddTranscriptToSession")>>]]

\* entry of SubmitTranscriptionJob with the identifiers of a generator that
\* works
SubmitBegin(c) ==
    /\ call[c].pc = "idle"
    /\ \E req \in Requests :
           SubmitBeginWith(c, req, NewUUID(uuidCount + 1), NewUUID(uuidCount + 2),
                           NewUUID(uuidCount + 3))
    /\ uuidCount' = uuidCount + 3
    /\ UNCHANGED <<transcripts, files, jobs>>

\* return nil, err
ReturnErr(cl, ev, err) ==
    [cl EXCEPT !.pc = "done", !.events = ev, !.result = NilResult, !.err = err]

\* return &transcriptionJob, nil
ReturnJob(cl, ev) ==
    [cl EXCEPT !.pc = "done", !.events = ev,
               !.result = [isNil |-> FALSE, val |-> cl.transcriptionJob],
               !.err = NoErr]

\* the next collaborator is called
Proceed(cl, ev, pc, op) ==
    [cl EXCEPT !.pc = pc, !.events = Append(ev, Invoked(op))]

\* number of times the call has invoked op
CallCount(c, op) ==
    Cardinality({i \in 1..Len(call[c].events) :
                    call[c].events[i] = Invoked(op)})

\* variant of SubmitPersisted: the error is not looked at
SubmitPersistedIgnoreErr(c) ==
    /\ call[c].pc = "persist"
    /\ \E outcome \in {NoErr, dbError} :
         LET r == AddTranscriptToSession(transcripts, call[c].sessionID,
                                         call[c].transcriptionJob, outcome)
             ev == Append(call[c].events,
                          Returned("AddTranscriptToSession", r.err))
         IN  /\ transcripts' = r.db
             /\ call' = [call EXCEPT ![c] = Proceed(@, ev, "upload", "UploadData")]
    /\ UNCHANGED <<files, jobs, uuidCount>>

\* variant of SubmitPersisted: a failed insert is tried once more
SubmitPersistedRetry(c) ==
    /\ call[c].pc = "persist"
    /\ \E outcome \in {NoErr, dbError} :
         LET r == AddTranscriptToSession(transcripts, call[c].sessionID,
                                         call[c].transcriptionJob, outcome)
             ev == Append(call[c].events,
                          Returned("AddTranscriptToSession", r.err))
         IN  /\ transcripts' = r.db
             /\ IF r.err # NoErr
                THEN IF CallCount(c, "AddTranscriptToSession") < 2
                     THEN call' = [call EXCEPT ![c] =
                                     Proceed(@, ev, "persist", "AddTranscriptToSession")]
                     ELSE call' = [call EXCEPT ![c] = ReturnErr(@, ev, r.err)]
                ELSE call' = [call EXCEPT ![c] = Proceed(@, ev, "upload", "UploadData")]
    /\ UNCHANGED <<files, jobs, uuidCount>>

\* AddTranscriptToSession answers; on failure the call returns it, otherwise
\* UploadData is called
SubmitPersisted(c) ==
    /\ call[c].pc = "persist"
    /\ \E outcome \in {NoErr, dbError} :
         LET r == AddTranscriptToSession(transcripts, call[c].sessionID,
                                         call[c].transcriptionJob, outcome)
             ev == Append(call[c].events,
                          Returned("AddTranscriptToSession", r.err))
         IN  /\ transcripts' = r.db
             /\ IF r.err # NoErr
                THEN call' = [call EXCEPT ![c] = ReturnErr(@, ev, r.err)]
                ELSE call' = [call EXCEPT ![c] = Proceed(@, ev, "upload", "UploadData")]
    /\ UNCHANGED <<files, jobs, uuidCount>>

\* variant of SubmitUploaded: the error is not looked at
SubmitUploadedIgnoreErr(c) ==
    /\ call[c].pc = "upload"
    /\ \E outcome \in {NoErr, fileStoreError} :
         LET r == UploadData(files, bucket,
                             call[c].transcriptionJob.AudioLocation,
                             call[c].audioFile, outcome)
             ev == Append(call[c].events, Returned("UploadData", r.err))
         IN  /\ files' = r.files
             /\ call' = [call EXCEPT ![c] =
                           Proceed(@, ev, "start", "StartTranscriptionJob")]
    /\ UNCHANGED <<transcripts, jobs, uuidCount>>

\* variant of SubmitUploaded: a failed upload removes the record again
SubmitUploadedRollback(c) ==
    /\ call[c].pc = "upload"
    /\ \E outcome \in {NoErr, fileStoreError} :
         LET r == UploadData(files, bucket,
                             call[c].transcriptionJob.AudioLocation,
                             call[c].audioFile, outcome)
             ev == Append(call[c].events, Returned("UploadData", r.err))
         IN  /\ files' = r.files
             /\ IF r.err # NoErr
                THEN /\ call' = [call EXCEPT ![c] = ReturnErr(@, ev, r.err)]
                     /\ transcripts' = SelectSeq(transcripts,
                            LAMBDA row : row.transcript.JobID #
                                         call[c].transcriptionJob.JobID)
                ELSE /\ call' = [call EXCEPT ![c] =
                                   Proceed(@, ev, "start", "StartTranscriptionJob")]
                     /\ UNCHANGED transcripts
    /\ UNCHANGED <<jobs, uuidCount>>

\* UploadData answers; on failure the call returns it, otherwise
\* StartTranscriptionJob is called
SubmitUploaded(c) ==
    /\ call[c].pc = "upload"
    /\ \E outcome \in {NoErr, fileStoreError} :
         LET r == UploadData(files, bucket,
                             call[c].transcriptionJob.AudioLocation,
                             call[c].audioFile, outcome)
             ev == Append(call[c].events, Returned("UploadData", r.err))
         IN  /\ files' = r.files
             /\ IF r.err # NoErr
                THEN call' = [call EXCEPT ![c] = ReturnErr(@, ev, r.err)]
                ELSE call' = [call EXCEPT ![c] =
                                Proceed(@, ev, "start", "StartTranscriptionJob")]
    /\ UNCHANGED <<transcripts, jobs, uuidCount>>

\* variant of StartArgs: the transcript key is handed over as the input and
\* the format is not handed on
StartArgsMixedUp(cl) ==
    [jobName |-> cl.transcriptionJob.JobID,
     audioLocation |-> cl.transcriptionJob.TranscriptLocation,
     resultLocation |-> cl.transcriptionJob.AudioLocation,
     audioFormat |-> MP3]

\* the arguments of t.transcriptionProvider.StartTranscriptionJob(jobID,
\* audioLocation, transcriptLocation, audioFormat)
StartArgs(cl) ==
    [jobName |-> cl.transcriptionJob.JobID,
     audioLocation |-> cl.transcriptionJob.AudioLocation,
     resultLocation |-> cl.transcriptionJob.TranscriptLocation,
     audioFormat |-> cl.audioFormat]

\* the call with the arguments the provider was handed
Captured(cl, a) == [cl EXCEPT !.capturedArgs = a]

\* variant of SubmitStarted: a refused job removes the uploaded audio
SubmitStartedCleanup(c) ==
    /\ call[c].pc = "start"
    /\ \E outcome \in {NoErr, transcriptionJobError} :
         LET a == StartArgs(call[c])
             r == StartTranscriptionJob(jobs, a.jobName, a.audioLocation,
                      a.resultLocation, a.audioFormat, outcome)
             ev == Append(call[c].events,
                          Returned("StartTranscriptionJob", r.err))
             key == <<bucket, Base(call[c].transcriptionJob.AudioLocation)>>
         IN  /\ jobs' = r.jobs
             /\ IF r.err # NoErr
                THEN /\ call' = [call EXCEPT ![c] = Captured(ReturnErr(@, ev, r.err), a)]
                     /\ files' = [k \in DOMAIN files \ {key} |-> files[k]]
                ELSE /\ call' = [call EXCEPT ![c] = Captured(ReturnJob(@, ev), a)]
                     /\ UNCHANGED files
    /\ UNCHANGED <<transcripts, uuidCount>>

\* variant of SubmitStarted: the record is returned whatever the provider says
SubmitStartedSwallow(c) ==
    /\ call[c].pc = "start"
    /\ \E outcome \in {NoErr, transcriptionJobError} :
         LET a == StartArgs(call[c])
             r == StartTranscriptionJob(jobs, a.jobName, a.audioLocation,
                      a.resultLocation, a.audioFormat, outcome)
             ev == Append(call[c].events,
                          Returned("StartTranscriptionJob", r.err))
         IN  /\ jobs' = r.jobs
             /\ call' = [call EXCEPT ![c] = Captured(ReturnJob(@, ev), a)]
    /\ UNCHANGED <<transcripts, files, uuidCount>>

\* StartTranscriptionJob answers; on failure the call returns it, otherwise
\* the call returns the record it assembled
SubmitStarted(c) ==
    /\ call[c].pc = "start"
    /\ \E outcome \in {NoErr, transcriptionJobError} :
         LET a == StartArgs(call[c])
             r == StartTranscriptionJob(jobs, a.jobName, a.audioLocation,
                      a.resultLocation, a.audioFormat, outcome)
             ev == Append(call[c].events,
                          Returned("StartTranscriptionJob", r.err))
         IN  /\ jobs' = r.jobs
             /\ IF r.err # NoErr
                THEN call' = [call EXCEPT ![c] = Captured(ReturnErr(@, ev, r.err), a)]
                ELSE call' = [call EXCEPT ![c] = Captured(ReturnJob(@, ev), a)]
    /\ UNCHANGED <<transcripts, files, uuidCount>>

SubmitTranscriptionJob(c) ==
    \/ SubmitBegin(c)
    \/ SubmitPersisted(c)
    \/ SubmitUploaded(c)
    \/ SubmitStarted(c)

Next ==
    /\ \E c \in Calls : SubmitTranscriptionJob(c)
    /\ reply' = NoReply

Spec == Init /\ [][Next]_vars

\* ------------------------------------------------------- read operations

\* the text the transcription provider leaves at a job's output key
ThisIsATest ==
    <<"t", "h", "i", "s", " ", "i", "s", " ", "a", " ", "t", "e", "s", "t">>

TranscriptTexts == {ThisIsATest, <<"o", "k">>}

\* the text of a job is decided by its recording: one text for the mp3
\* recordings and one for the others
TranscriptOf(j) ==
    CHOOSE text \in TranscriptTexts : (text = ThisIsATest) = (j.MediaFormat = "mp3")

\* the job ids a read request asks for: the ids handed to the calls and one
\* that no call was given
JobIDs == {NewUUID(3 * (c - 1) + 1) : c \in Calls} \cup {<<"unknown">>}

\* what the persistence store answers a read with: success or a failure
DbOutcomes == {NoErr, dbError}

\* what the blob store answers a download with, and the bytes it had written
\* when it failed
FsOutcomes == {NoErr, fileStoreError}
PartialWrites == {0, 1}

\* PostgresDao.GetTranscript: a failed query answers its error, no row answers
\* EntityNotFound
GetTranscriptCtx(db, jobID, outcome) ==
    IF outcome # NoErr
    THEN [isNil |-> TRUE, val |-> Transcript, err |-> outcome]
    ELSE GetTranscript(db, jobID)

\* TranscriptionManager.GetTranscriptJob with the store's outcome
GetTranscriptJobCtx(db, jobID, outcome) == GetTranscriptCtx(db, jobID, outcome)

\* the rows of a session, in the order they were stored
RECURSIVE RowsOfSession(_, _)
RowsOfSession(db, sessionID) ==
    IF db = <<>> THEN <<>>
    ELSE LET rest == RowsOfSession(Tail(db), sessionID)
         IN  IF Head(db).SessionId = sessionID
             THEN <<Head(db).transcript>> \o rest
             ELSE rest

\* variant of GetTranscriptsForSessionDao: no row is answered as not found
GetTranscriptsForSessionDaoNotFound(db, sessionID, outcome) ==
    IF outcome # NoErr
    THEN [isNil |-> TRUE, list |-> <<>>, err |-> outcome]
    ELSE IF RowsOfSession(db, sessionID) = <<>>
    THEN [isNil |-> TRUE, list |-> <<>>, err |-> EntityNotFound]
    ELSE [isNil |-> FALSE, list |-> RowsOfSession(db, sessionID), err |-> NoErr]

\* PostgresDao.GetTranscriptsForSession: a failed query answers a nil list and
\* its error; otherwise the list starts empty and gets one entry per row
GetTranscriptsForSessionDao(db, sessionID, outcome) ==
    IF outcome # NoErr
    THEN [isNil |-> TRUE, list |-> <<>>, err |-> outcome]
    ELSE [isNil |-> FALSE, list |-> RowsOfSession(db, sessionID), err |-> NoErr]

\* TranscriptionManager.GetTranscriptsForSession: delegation
GetTranscriptsForSession(db, sessionID, outcome) ==
    GetTranscriptsForSessionDao(db, sessionID, outcome)

\* S3Filestore.DownloadData with the store's outcome: a failed download
\* reports the bytes it had written before it failed
DownloadDataCtx(fs, bkt, fileKey, outcome, written) ==
    IF outcome = NoErr THEN DownloadData(fs, bkt, fileKey)
    ELSE LET d == DownloadData(fs, bkt, fileKey)
             k == IF written < d.n THEN written ELSE d.n
         IN  [n |-> k, data |-> SubSeq(d.data, 1, k), err |-> outcome]

\* variant of DownloadTranscript: the audio location is fetched
DownloadTranscriptAudio(db, fs, jobID, dbOutcome, fsOutcome, written) ==
    LET transcript == GetTranscriptCtx(db, jobID, dbOutcome)
    IN  IF transcript.err # NoErr
        THEN [n |-> 0, data |-> <<>>, err |-> transcript.err,
              lookupErr |-> transcript.err, fetchErr |-> NoErr,
              downloadCalls |-> 0]
        ELSE LET d == DownloadDataCtx(fs, bucket, transcript.val.AudioLocation,
                                      fsOutcome, written)
             IN  IF d.err # NoErr
                 THEN [n |-> 0, data |-> d.data, err |-> d.err,
                       lookupErr |-> NoErr, fetchErr |-> d.err,
                       downloadCalls |-> 1]
                 ELSE [n |-> d.n, data |-> d.data, err |-> NoErr,
                       lookupErr |-> NoErr, fetchErr |-> NoErr,
                       downloadCalls |-> 1]

\* variant of DownloadTranscript: a failed fetch returns the count of the
\* bytes written beside the error
DownloadTranscriptKeepCount(db, fs, jobID, dbOutcome, fsOutcome, written) ==
    LET transcript == GetTranscriptCtx(db, jobID, dbOutcome)
    IN  IF transcript.err # NoErr
        THEN [n |-> 0, data |-> <<>>, err |-> transcript.err,
              lookupErr |-> transcript.err, fetchErr |-> NoErr,
              downloadCalls |-> 0]
        ELSE LET d == DownloadDataCtx(fs, bucket, transcript.val.TranscriptLocation,
                                      fsOutcome, written)
             IN  [n |-> d.n, data |-> d.data, err |-> d.err,
                  lookupErr |-> NoErr, fetchErr |-> d.err,
                  downloadCalls |-> 1]

\* TranscriptionManager.DownloadTranscript: n and err are what it returns,
\* data is what the sink holds; lookupErr and fetchErr are what the store and
\* the blob store answered, downloadCalls counts the blob store calls
DownloadTranscript(db, fs, jobID, dbOutcome, fsOutcome, written) ==
    LET transcript == GetTranscriptCtx(db, jobID, dbOutcome)
    IN  IF transcript.err # NoErr
        THEN [n |-> 0, data |-> <<>>, err |-> transcript.err,
              lookupErr |-> transcript.err, fetchErr |-> NoErr,
              downloadCalls |-> 0]
        ELSE LET d == DownloadDataCtx(fs, bucket, transcript.val.TranscriptLocation,
                                      fsOutcome, written)
             IN  IF d.err # NoErr
                 THEN [n |-> 0, data |-> d.data, err |-> d.err,
                       lookupErr |-> NoErr, fetchErr |-> d.err,
                       downloadCalls |-> 1]
                 ELSE [n |-> d.n, data |-> d.data, err |-> NoErr,
                       lookupErr |-> NoErr, fetchErr |-> NoErr,
                       downloadCalls |-> 1]

\* presentation.TranscriptResponseFromTranscript
TranscriptResponseFromTranscript(transcript) ==
    [ID |-> transcript.JobID, Status |-> TranscriptStatusString(transcript.Status)]

\* variant of handleError: the error is compared with the kinds themselves
handleErrorNoUnwrap(err) ==
    IF err = EntityNotFound THEN [code |-> 404, body |-> <<"Not Found">>]
    ELSE IF err = Conflicted THEN [code |-> 409, body |-> <<"Conflict">>]
    ELSE IF err = EntityAlreadyExists
    THEN [code |-> 409, body |-> <<"Already Exists">>]
    ELSE IF err = InvalidEntity
    THEN [code |-> 422, body |-> <<"Invalid Request">>]
    ELSE [code |-> 500, body |-> <<"Internal Server Error">>]

\* presentation.handleError: the status code and the ErrorResponse message
handleError(err) ==
    IF Is(err, EntityNotFound) THEN [code |-> 404, body |-> <<"Not Found">>]
    ELSE IF Is(err, Conflicted) THEN [code |-> 409, body |-> <<"Conflict">>]
    ELSE IF Is(err, EntityAlreadyExists)
    THEN [code |-> 409, body |-> <<"Already Exists">>]
    ELSE IF Is(err, InvalidEntity)
    THEN [code |-> 422, body |-> <<"Invalid Request">>]
    ELSE [code |-> 500, body |-> <<"Internal Server Error">>]

\* the length of the buffer GetTranscriptFullText hands to the download
BufLen == 100

\* aws.NewWriteAtBuffer over make([]byte, BufLen): BufLen zero bytes
NewWriteAtBuffer == [i \in 1..BufLen |-> 0]

\* WriteAtBuffer.WriteAt at offset 0: p replaces the head of the buffer, and
\* the buffer grows when p is longer
WriteAt(buf, p) ==
    IF Len(p) >= Len(buf) THEN p
    ELSE p \o SubSeq(buf, Len(p) + 1, Len(buf))

\* HttpAPI.GetTranscriptJob
HttpGetTranscriptJob(jobID, outcome) ==
    LET job == GetTranscriptJobCtx(transcripts, jobID, outcome)
        answer == IF job.err # NoErr THEN handleError(job.err)
                  ELSE [code |-> 200,
                        body |-> <<TranscriptResponseFromTranscript(job.val)>>]
    IN  /\ reply' = [NoReply EXCEPT !.op = "GetTranscriptJob", !.arg = jobID,
                                    !.isNil = job.isNil, !.val = job.val,
                                    !.err = job.err, !.lookupErr = job.err,
                                    !.code = answer.code, !.body = answer.body]
        /\ UNCHANGED <<transcripts, files, jobs, uuidCount, call>>

\* HttpAPI.GetTranscriptJobs
HttpGetTranscriptJobs(sessionID, outcome) ==
    LET found == GetTranscriptsForSession(transcripts, sessionID, outcome)
        response == [i \in 1..Len(found.list) |->
                        TranscriptResponseFromTranscript(found.list[i])]
        answer == IF found.err # NoErr THEN handleError(found.err)
                  ELSE [code |-> 200, body |-> response]
    IN  /\ reply' = [NoReply EXCEPT !.op = "GetTranscriptsForSession",
                                    !.arg = sessionID,
                                    !.isNil = found.isNil, !.list = found.list,
                                    !.err = found.err, !.lookupErr = found.err,
                                    !.code = answer.code, !.body = answer.body]
        /\ UNCHANGED <<transcripts, files, jobs, uuidCount, call>>

\* HttpAPI.GetTranscriptFullText
HttpGetTranscriptFullText(jobID, dbOutcome, fsOutcome, written) ==
    LET d == DownloadTranscript(transcripts, files, jobID, dbOutcome, fsOutcome,
                                written)
        writeBuffer == WriteAt(NewWriteAtBuffer, d.data)
        answer == IF d.err # NoErr THEN handleError(d.err)
                  ELSE [code |-> 200, body |-> SubSeq(writeBuffer, 1, d.n)]
    IN  /\ reply' = [NoReply EXCEPT !.op = "DownloadTranscript", !.arg = jobID,
                                    !.n = d.n, !.data = d.data, !.err = d.err,
                                    !.lookupErr = d.lookupErr,
                                    !.fetchErr = d.fetchErr,
                                    !.downloadCalls = d.downloadCalls,
                                    !.code = answer.code, !.body = answer.body]
        /\ UNCHANGED <<transcripts, files, jobs, uuidCount, call>>

\* the transcription provider finishes a job it was given: the text appears
\* in the job's output bucket under the job's output key
TranscriptionJobCompletes(j, text) ==
    /\ j \in jobs
    /\ <<j.OutputBucketName, j.OutputKey>> \notin DOMAIN files
    /\ files' = [k \in DOMAIN files \cup {<<j.OutputBucketName, j.OutputKey>>} |->
                    IF k = <<j.OutputBucketName, j.OutputKey>> THEN text
                    ELSE files[k]]
    /\ reply' = NoReply
    /\ UNCHANGED <<transcripts, jobs, uuidCount, call>>

\* a call that has begun and not returned
InFlight(c) == call[c].pc \notin {"idle", "done"}

\* the calls take their turns in the order of their numbers
InTurn(c) ==
    /\ \A d \in Calls : d < c => call[d].pc = "done"
    /\ \A d \in Calls : d > c => call[d].pc = "idle"

\* The read operations are checked against one submission at a time (the
\* interleavings of submissions are the subject of Spec), and reply holds one
\* answer: a read is served when the answer before it has been taken, which
\* every other step does.
NextOps ==
    \/ /\ \E c \in Calls : InTurn(c) /\ SubmitTranscriptionJob(c)
       /\ reply' = NoReply
    \/ \E j \in jobs : TranscriptionJobCompletes(j, TranscriptOf(j))
    \/ /\ reply = NoReply
       /\ \E jobID \in JobIDs, outcome \in DbOutcomes :
              HttpGetTranscriptJob(jobID, outcome)
    \/ /\ reply = NoReply
       /\ \E sessionID \in SessionIDs, outcome \in DbOutcomes :
              HttpGetTranscriptJobs(sessionID, outcome)
    \/ /\ reply = NoReply
       /\ \E jobID \in JobIDs, dbOutcome \in DbOutcomes, fsOutcome \in FsOutcomes,
             written \in PartialWrites :
              HttpGetTranscriptFullText(jobID, dbOutcome, fsOutcome, written)

SpecOps == Init /\ [][NextOps]_vars

\* ------------------------------------------------------ the create handlers

\* the errors of encoding/json: a body that is no JSON value, a value of the
\* wrong JSON type for a string field, and a value time.Time cannot parse
jsonSyntaxError == <<"invalid character">>
jsonUnmarshalTypeError == <<"json: cannot unmarshal number into Go struct field">>
timeParseError == <<"parsing time">>

\* the zero time.Time, and the dates of the requests
ZeroTime == "0001-01-01T00:00:00Z"
ValidDates == {"2024-03-01T18:00:00Z"}

\* the request structs: the JSON name of every field with its Go type, and
\* the zero value of the struct
CreateUserRequest == [handle |-> "string", email |-> "string"]
CreateCampaignRequest == [name |-> "string", link |-> "string"]
CreateSessionRequest == [sessionDate |-> "time", title |-> "string"]

ZeroOf(schema) ==
    [k \in DOMAIN schema |-> IF schema[k] = "time" THEN ZeroTime ELSE ""]

\* json.Decoder.Decode into a struct, from member i of the object on: a
\* member naming no field is skipped; a string field takes a JSON string, and
\* any other value leaves it alone and is remembered as the error while the
\* decoding goes on; a time.Time field takes a date, and any other value ends
\* the decoding with the members before it already stored
RECURSIVE decodeObject(_, _, _, _, _)
decodeObject(schema, members, i, val, savedError) ==
    IF i > Len(members) THEN [val |-> val, err |-> savedError]
    ELSE LET m == members[i]
         IN  IF m.name \notin DOMAIN schema
             THEN decodeObject(schema, members, i + 1, val, savedError)
             ELSE IF schema[m.name] = "string"
             THEN IF m.kind = "string"
                  THEN decodeObject(schema, members, i + 1,
                                    [val EXCEPT ![m.name] = m.text], savedError)
                  ELSE decodeObject(schema, members, i + 1, val,
                                    IF savedError = NoErr
                                    THEN jsonUnmarshalTypeError
                                    ELSE savedError)
             ELSE IF m.kind = "string" /\ m.text \in ValidDates
             THEN decodeObject(schema, members, i + 1,
                               [val EXCEPT ![m.name] = m.text], savedError)
             ELSE [val |-> val, err |-> timeParseError]

\* json.NewDecoder(body).Decode(&v): the body is scanned as a whole first, so
\* one that is no JSON value stores nothing
Decode(schema, body) ==
    IF ~body.wellFormed
    THEN [val |-> ZeroOf(schema), err |-> jsonSyntaxError]
    ELSE decodeObject(schema, body.members, 1, ZeroOf(schema), NoErr)

\* UserManager.AddNewUser, CampaignManager.AddCampaign and
\* SessionManager.AddSession: the entity the store has added (<<>> for none)
\* and the error; dbErr is what the store answers
AddNewUser(user, dbErr) ==
    IF user.Email = ""
    THEN [created |-> <<>>, err |-> <<"missing field: Email">> \o InvalidEntity]
    ELSE IF user.Handle = ""
    THEN [created |-> <<>>, err |-> <<"missing field: Handle">> \o InvalidEntity]
    ELSE IF dbErr # NoErr THEN [created |-> <<>>, err |-> dbErr]
    ELSE [created |-> <<user>>, err |-> NoErr]

AddCampaign(campaign, dbErr) ==
    IF campaign.Name = ""
    THEN [created |-> <<>>, err |-> <<"missing field name">> \o InvalidEntity]
    ELSE IF dbErr # NoErr THEN [created |-> <<>>, err |-> dbErr]
    ELSE [created |-> <<campaign>>, err |-> NoErr]

AddSession(session, dbErr) ==
    IF session.Title = ""
    THEN [created |-> <<>>, err |-> <<"missing field: Title">> \o InvalidEntity]
    ELSE IF dbErr # NoErr THEN [created |-> <<>>, err |-> dbErr]
    ELSE [created |-> <<session>>, err |-> NoErr]

\* what a handler has done with a request: the decoding error, the responses
\* it has written in their order, how often it has called its manager and
\* what the manager has added
Served(op, in, decodeErr, first, m) ==
    [NoReply EXCEPT !.op = op, !.arg = in,
                    !.decodeErr = decodeErr,
                    !.err = m.err,
                    !.responses = first \o <<IF m.err # NoErr
                                             THEN handleError(m.err).code
                                             ELSE 201>>,
                    !.managerCalls = 1,
                    !.created = m.created]

Refused(op, in, decodeErr) ==
    [NoReply EXCEPT !.op = op, !.arg = in,
                    !.decodeErr = decodeErr,
                    !.responses = <<422>>]

\* HttpAPI.AddUser
HttpAddUser(in) ==
    LET user == Decode(CreateUserRequest, in.body)
    IN  IF user.err # NoErr THEN Refused("AddUser", in, user.err)
        ELSE Served("AddUser", in, NoErr, <<>>,
                    AddNewUser([Handle |-> user.val.handle,
                                Email |-> user.val.email], in.dbErr))

\* HttpAPI.AddCampaign
HttpAddCampaign(in) ==
    LET campaign == Decode(CreateCampaignRequest, in.body)
    IN  IF campaign.err # NoErr THEN Refused("AddCampaign", in, campaign.err)
        ELSE Served("AddCampaign", in, NoErr, <<>>,
                    AddCampaign([Name |-> campaign.val.name,
                                 Link |-> campaign.val.link], in.dbErr))

\* HttpAPI.AddSession: the branch of the decoding error writes the 422 and
\* does not return
HttpAddSession(in) ==
    LET session == Decode(CreateSessionRequest, in.body)
    IN  Served("AddSession", in, session.err,
               IF session.err # NoErr THEN <<422>> ELSE <<>>,
               AddSession([SessionDate |-> session.val.sessionDate,
                           Title |-> session.val.title], in.dbErr))

\* the members of the request bodies
Str(name, text) == [name |-> name, kind |-> "string", text |-> text]
Num(name) == [name |-> name, kind |-> "number", text |-> "5"]

\* the request bodies: an object with its members in their order, or a body
\* that is no JSON value
Object(members) == [wellFormed |-> TRUE, members |-> members]
Malformed == [wellFormed |-> FALSE, members |-> <<>>]

UserBodies ==
    {Malformed,
     Object(<<Str("handle", "edgar"), Str("email", "edgar@example.com")>>),
     Object(<<Str("handle", "edgar"), Num("email")>>),
     Object(<<Num("handle"), Str("email", "edgar@example.com")>>),
     Object(<<Str("email", "edgar@example.com")>>),
     Object(<<>>)}

CampaignBodies ==
    {Malformed,
     Object(<<Str("name", "Curse of Strahd"), Str("link", "strahd.example.com")>>),
     Object(<<Str("name", "Curse of Strahd"), Num("link")>>),
     Object(<<Num("name"), Str("link", "strahd.example.com")>>),
     Object(<<Str("link", "strahd.example.com")>>),
     Object(<<>>)}

SessionBodies ==
    {Malformed,
     Object(<<Str("title", "Session 1"), Str("sessionDate", "2024-03-01T18:00:00Z")>>),
     Object(<<Str("title", "Session 1"), Str("sessionDate", "yesterday")>>),
     Object(<<Str("sessionDate", "yesterday"), Str("title", "Session 1")>>),
     Object(<<Str("title", "Session 1"), Num("sessionDate")>>),
     Object(<<Num("title"), Str("sessionDate", "2024-03-01T18:00:00Z")>>),
     Object(<<Str("sessionDate", "2024-03-01T18:00:00Z")>>),
     Object(<<>>)}

\* what the store answers an insertion with
StoreOutcomes == {NoErr, dbError, EntityAlreadyExists, EntityNotFound}

\* the requests: which handler, and what it is given
Requested ==
    {[fn |-> "AddUser", in |-> [body |-> b, dbErr |-> e]] :
        b \in UserBodies, e \in StoreOutcomes}
    \cup {[fn |-> "AddCampaign", in |-> [body |-> b, dbErr |-> e]] :
             b \in CampaignBodies, e \in StoreOutcomes}
    \cup {[fn |-> "AddSession", in |-> [body |-> b, dbErr |-> e]] :
             b \in SessionBodies, e \in StoreOutcomes}

InitCreate ==
    /\ reply \in {[NoReply EXCEPT !.op = "input", !.arg = i] : i \in Requested}
    /\ transcripts = <<>>
    /\ files = [k \in {} |-> <<>>]
    /\ jobs = {}
    /\ uuidCount = 0
    /\ call = [c \in Calls |-> IdleCall]

\* the three create handlers applied to the request
ApplyAddUser ==
    /\ reply.op = "input" /\ reply.arg.fn = "AddUser"
    /\ reply' = HttpAddUser(reply.arg.in)
    /\ UNCHANGED <<transcripts, files, jobs, uuidCount, call>>

ApplyAddCampaign ==
    /\ reply.op = "input" /\ reply.arg.fn = "AddCampaign"
    /\ reply' = HttpAddCampaign(reply.arg.in)
    /\ UNCHANGED <<transcripts, files, jobs, uuidCount, call>>

ApplyAddSession ==
    /\ reply.op = "input" /\ reply.arg.fn = "AddSession"
    /\ reply' = HttpAddSession(reply.arg.in)
    /\ UNCHANGED <<transcripts, files, jobs, uuidCount, call>>

NextCreate ==
    \/ ApplyAddUser
    \/ ApplyAddCampaign
    \/ ApplyAddSession

SpecCreate == InitCreate /\ [][NextCreate]_vars

\* --------------------------------------------- the functions on their own

\* str with every letter in the other case
RECURSIVE SwapCase(_)
SwapCase(str) ==
    IF Len(str) = 0 THEN ""
    ELSE SwapChar(SubSeq(str, 1, 1)) \o SwapCase(SubSeq(str, 2, Len(str)))

\* str with its upper-case letters (from = UpperCase) or its lower-case
\* letters (from = LowerCase) in the other case
RECURSIVE ToCase(_, _)
ToCase(str, from) ==
    IF Len(str) = 0 THEN ""
    ELSE (IF IndexOf(from, SubSeq(str, 1, 1), 1) # 0
          THEN SwapChar(SubSeq(str, 1, 1))
          ELSE SubSeq(str, 1, 1)) \o ToCase(SubSeq(str, 2, Len(str)), from)

\* strings.ToLower and strings.ToUpper
ToLower(str) == ToCase(str, UpperCase)
ToUpper(str) == ToCase(str, LowerCase)

\* a name as it is written, in upper case, in lower case and with every
\* letter in the other case
Variants(name) == {name, ToUpper(name), ToLower(name), SwapCase(name)}

\* the strings handed to the two parsers: the names of both enumerations in
\* their variants, and strings that name nothing
BadNames ==
    {"", "MP", "MP5", "WebM ", "audio/mpeg", "Started", "Done!", "Failed"}

Names ==
    UNION {Variants(audioFormatStrings[i]) : i \in DOMAIN audioFormatStrings}
    \cup UNION {Variants(transcriptStatusStrings[i]) :
                   i \in DOMAIN transcriptStatusStrings}
    \cup BadNames

\* the errors handed to handleError: the four kinds, each as it is and
\* wrapped once and twice, and errors of no kind
Kinds == {EntityNotFound, EntityAlreadyExists, InvalidEntity, Conflicted}

Errors ==
    Kinds
    \cup {<<"get transcript">> \o k : k \in Kinds}
    \cup {<<"handler", "get transcript">> \o k : k \in Kinds}
    \cup {dbError, fileStoreError, transcriptionJobError,
          <<"get transcript">> \o dbError,
          <<"invalid AudioFormat: MP5">>}

\* the audio formats handed to the provider: the seven defined ones and the
\* values next to them
Formats == -1..8

\* what the transcription service answers a request with
ServiceOutcomes == {NoErr, transcriptionJobError}

\* the functions, and the inputs of each: which function, and what it is
\* given
Functions ==
    {"AudioFormatFromString", "TranscriptStatusFromString", "handleError",
     "StartTranscriptionJob"}

Inputs(fn) ==
    CASE fn = "handleError" -> {[fn |-> fn, in |-> err] : err \in Errors}
      [] fn = "StartTranscriptionJob" ->
             {[fn |-> fn, in |-> [audioFormat |-> f, outcome |-> o]] :
                 f \in Formats, o \in ServiceOutcomes}
      [] OTHER -> {[fn |-> fn, in |-> str] : str \in Names}

InitFunctions ==
    /\ \E fn \in Functions :
           reply \in {[NoReply EXCEPT !.op = "input", !.arg = i] : i \in Inputs(fn)}
    /\ transcripts = <<>>
    /\ files = [k \in {} |-> <<>>]
    /\ jobs = {}
    /\ uuidCount = 0
    /\ call = [c \in Calls |-> IdleCall]

Given(fn) == reply.op = "input" /\ reply.arg.fn = fn

\* models.AudioFormatFromString applied to the input; data is the String of
\* the value it returned
ApplyAudioFormatFromString ==
    /\ Given("AudioFormatFromString")
    /\ LET r == AudioFormatFromString(reply.arg.in)
       IN  reply' = [NoReply EXCEPT !.op = "AudioFormatFromString",
                                    !.arg = reply.arg.in,
                                    !.n = r.val, !.err = r.err,
                                    !.data = AudioFormatString(r.val).val]
    /\ UNCHANGED <<transcripts, files, jobs, uuidCount, call>>

\* models.TranscriptStatusFromString applied to the input; data is the String
\* of the value it returned
ApplyTranscriptStatusFromString ==
    /\ Given("TranscriptStatusFromString")
    /\ LET r == TranscriptStatusFromString(reply.arg.in)
       IN  reply' = [NoReply EXCEPT !.op = "TranscriptStatusFromString",
                                    !.arg = reply.arg.in,
                                    !.n = r.val, !.err = r.err,
                                    !.data = IF r.val + 1 \in DOMAIN transcriptStatusStrings
                                             THEN TranscriptStatusString(r.val)
                                             ELSE ""]
    /\ UNCHANGED <<transcripts, files, jobs, uuidCount, call>>

\* presentation.handleError applied to the input
ApplyHandleError ==
    /\ Given("handleError")
    /\ LET r == handleError(reply.arg.in)
       IN  reply' = [NoReply EXCEPT !.op = "handleError",
                                    !.arg = reply.arg.in,
                                    !.err = reply.arg.in,
                                    !.code = r.code, !.body = r.body]
    /\ UNCHANGED <<transcripts, files, jobs, uuidCount, call>>

\* AmazonTranscription.StartTranscriptionJob applied to the input
ApplyStartTranscriptionJob ==
    /\ Given("StartTranscriptionJob")
    /\ LET r == StartTranscriptionJob(jobs, <<"testUUID">>, <<"audio-testUUID">>,
                                      <<"transcript-testUUID">>,
                                      reply.arg.in.audioFormat,
                                      reply.arg.in.outcome)
       IN  /\ jobs' = r.jobs
           /\ reply' = [NoReply EXCEPT !.op = "StartTranscriptionJob",
                                       !.arg = reply.arg.in,
                                       !.err = r.err,
                                       !.panicked = r.panicked]
    /\ UNCHANGED <<transcripts, files, uuidCount, call>>

NextFunctions ==
    \/ ApplyAudioFormatFromString
    \/ ApplyTranscriptStatusFromString
    \/ ApplyHandleError
    \/ ApplyStartTranscriptionJob

SpecFunctions == InitFunctions /\ [][NextFunctions]_vars

\* ----------------------------------------------------- identifier sources

\* uuid.Nil.String(), the text of the zero UUID
NilUUID == <<"00000000-0000-0000-0000-000000000000">>

\* what uuid.NewUUID answers inside the generator: an identifier or a failure
genError == <<"uuid: generator failed">>

\* DefaultUUIDProvider.NewUUID with the outcome of uuid.NewUUID: the error is
\* dropped and the String of the UUID returned, the zero UUID after a failure
NewUUIDOrNil(n, outcome) == IF outcome # NoErr THEN NilUUID ELSE NewUUID(n)

\* the identifier sources a manager is built with: the generator working, the
\* generator failing, and a source that hands out one value every time
IdSources == {"default", "failing", "fixed"}

\* the n-th identifier of a source
IdOf(source, n) ==
    CASE source = "default" -> NewUUIDOrNil(n, NoErr)
      [] source = "failing" -> NewUUIDOrNil(n, genError)
      [] source = "fixed" -> <<"testUUID">>

\* entry of SubmitTranscriptionJob with the identifiers of any source
SubmitBeginIds(c) ==
    /\ call[c].pc = "idle"
    /\ \E req \in Requests, source \in IdSources :
           SubmitBeginWith(c, req, IdOf(source, uuidCount + 1),
                           IdOf(source, uuidCount + 2), IdOf(source, uuidCount + 3))
    /\ uuidCount' = uuidCount + 3
    /\ UNCHANGED <<transcripts, files, jobs>>

\* submissions one at a time, with identifiers of any source
NextIds ==
    /\ \E c \in Calls :
           /\ InTurn(c)
           /\ \/ SubmitBeginIds(c)
              \/ SubmitPersisted(c)
              \/ SubmitUploaded(c)
              \/ SubmitStarted(c)
    /\ reply' = NoReply

SpecIds == Init /\ [][NextIds]_vars

\* ------------------------------------------------------ the submit endpoint

\* variant of contentTypeToAudioType: a content type it does not know is
\* taken for MP3
contentTypeToAudioTypeDefault(contentType) ==
    CASE contentType = "audio/mpeg" -> [val |-> MP3, err |-> NoErr]
      [] contentType = "audio/webm" -> [val |-> WebM, err |-> NoErr]
      [] contentType = "audio/ogg" -> [val |-> OGG, err |-> NoErr]
      [] OTHER -> [val |-> MP3, err |-> NoErr]

\* presentation.contentTypeToAudioType
contentTypeToAudioType(contentType) ==
    CASE contentType = "audio/mpeg" -> [val |-> MP3, err |-> NoErr]
      [] contentType = "audio/webm" -> [val |-> WebM, err |-> NoErr]
      [] contentType = "audio/ogg" -> [val |-> OGG, err |-> NoErr]
      [] OTHER -> [val |-> 0, err |-> InvalidEntity]

\* the Content-Type headers a submission comes with
ContentTypes ==
    {"audio/mpeg", "audio/webm", "audio/ogg", "audio/wav", "AUDIO/MPEG", ""}

\* HttpAPI.SubmitTranscriptionJob up to the call of the manager: a content
\* type that is no audio type is answered with 422 and the handler returns;
\* otherwise the manager is called with the audio type, and reply holds the
\* request until the manager has returned
HttpSubmitTranscriptionJob(c, contentType) ==
    LET audioFormat == contentTypeToAudioType(contentType)
    IN  /\ call[c].pc = "idle"
        /\ IF audioFormat.err # NoErr
           THEN /\ reply' = [NoReply EXCEPT !.op = "SubmitTranscriptionJob",
                                            !.arg = contentType,
                                            !.code = 422,
                                            !.responses = <<422>>]
                /\ UNCHANGED <<transcripts, files, jobs, uuidCount, call>>
           ELSE /\ \E req \in Requests :
                       SubmitBeginWith(c, [req EXCEPT !.audioFormat = audioFormat.val],
                                       NewUUID(uuidCount + 1), NewUUID(uuidCount + 2),
                                       NewUUID(uuidCount + 3))
                /\ uuidCount' = uuidCount + 3
                /\ reply' = [NoReply EXCEPT !.op = "SubmitTranscriptionJob",
                                            !.arg = contentType,
                                            !.managerCalls = 1]
                /\ UNCHANGED <<transcripts, files, jobs>>

\* HttpAPI.SubmitTranscriptionJob from the call of the manager on: the manager
\* takes a step, and when it has returned the handler answers, with
\* handleError's status for an error and 201 for a Transcript
HttpSubmitContinues(c) ==
    /\ \/ SubmitPersisted(c)
       \/ SubmitUploaded(c)
       \/ SubmitStarted(c)
    /\ reply' = IF call'[c].pc # "done" THEN reply
                ELSE IF call'[c].err # NoErr
                THEN [reply EXCEPT !.code = handleError(call'[c].err).code,
                                   !.responses = <<handleError(call'[c].err).code>>]
                ELSE [reply EXCEPT !.code = 201, !.responses = <<201>>]

\* submissions over HTTP, one at a time
NextHttp ==
    \/ \E c \in Calls, contentType \in ContentTypes :
           InTurn(c) /\ HttpSubmitTranscriptionJob(c, contentType)
    \/ \E c \in Calls : InTurn(c) /\ HttpSubmitContinues(c)

SpecHttp == Init /\ [][NextHttp]_vars

\* ---------------------------------------------------------- cancellation

\* the context of the request behind call c is cancelled (the client goes away
\* or a deadline passes) while the call is in flight; ctxDoneAt keeps the step
\* the call was in
CtxCancelled(c) ==
    /\ call[c].pc \in {"persist", "upload", "start"}
    /\ call[c].ctxDoneAt = ""
    /\ call' = [call EXCEPT ![c].ctxDoneAt = call[c].pc]
    /\ reply' = NoReply
    /\ UNCHANGED <<transcripts, files, jobs, uuidCount>>

NextCancel ==
    \/ /\ \E c \in Calls : SubmitTranscriptionJob(c)
       /\ reply' = NoReply
    \/ \E c \in Calls : CtxCancelled(c)

SpecCancel == Init /\ [][NextCancel]_vars

\* ------------------------------------------------------------------ claims

\* the call has invoked op
HasCalled(c, op) == CallCount(c, op) > 0

\* the errors op has answered the call with (NoErr for a success)
Answers(c, op) ==
    {call[c].events[i].err : i \in
        {j \in 1..Len(call[c].events) :
            call[c].events[j].kind = "return" /\ call[c].events[j].op = op}}

\* op has failed in the call
Failed(c, op) == \E e \in Answers(c, op) : e # NoErr

\* op has succeeded in the call
Succeeded(c, op) == NoErr \in Answers(c, op)

\* the call has returned
HasReturned(c) == call[c].pc = "done"

\* C1: when AddTranscriptToSession fails inside a SubmitTranscriptionJob call,
\* the call returns that failure with no Transcript, and neither UploadData
\* nor StartTranscriptionJob is invoked in that call (both counts are 0).
C1_PersistenceFirst ==
    \A c \in Calls :
        Failed(c, "AddTranscriptToSession") =>
            /\ HasReturned(c)
            /\ call[c].result.isNil
            /\ call[c].err # NoErr
            /\ call[c].err \in Answers(c, "AddTranscriptToSession")
            /\ CallCount(c, "UploadData") = 0
            /\ CallCount(c, "StartTranscriptionJob") = 0

\* some call has seen its persistence call fail while another call went on
\* to use the blob store
C1_Witness ==
    \E c, d \in Calls :
        /\ Failed(c, "AddTranscriptToSession")
        /\ HasReturned(c)
        /\ HasCalled(d, "UploadData")

\* the order in which one call talks to its collaborators
SubmitOrder ==
    <<"AddTranscriptToSession", "UploadData", "StartTranscriptionJob">>

\* C2: within one SubmitTranscriptionJob call the collaborators are used one
\* after another in the order persist, upload, start-provider-job: every
\* invocation but the first directly follows the successful answer of the
\* collaborator before it, so that no two of them are ever in flight together.
C2_StrictSequence ==
    \A c \in Calls :
        LET ev == call[c].events IN
        /\ Len(ev) <= 2 * Len(SubmitOrder)
        /\ \A i \in 1..Len(ev) :
             /\ ev[i].op = SubmitOrder[(i + 1) \div 2]
             /\ ev[i].kind = (IF i % 2 = 1 THEN "call" ELSE "return")
             /\ (i % 2 = 1 /\ i > 1) => ev[i - 1].err = NoErr

\* a call in which all three collaborators were used
C2_Witness ==
    \E c \in Calls :
        /\ HasCalled(c, "StartTranscriptionJob")
        /\ Len(call[c].events) = 6

RecordOfCallStored(c) ==
    \E i \in 1..Len(transcripts) :
        /\ transcripts[i].SessionId = call[c].sessionID
        /\ transcripts[i].transcript = call[c].transcriptionJob

\* C4: when persistence succeeds and UploadData fails, the call returns the
\* upload failure with no Transcript, StartTranscriptionJob is not invoked, and
\* the record persisted by the call is still in the store, unchanged, with
\* Status Transcribing.
C4_UploadFailureKeepsRecord ==
    \A c \in Calls :
        Failed(c, "UploadData") =>
            /\ Succeeded(c, "AddTranscriptToSession")
            /\ HasReturned(c)
            /\ call[c].result.isNil
            /\ call[c].err # NoErr
            /\ call[c].err \in Answers(c, "UploadData")
            /\ CallCount(c, "StartTranscriptionJob") = 0
            /\ RecordOfCallStored(c)
            /\ \A i \in RowsOfJob(transcripts, call[c].transcriptionJob.JobID) :
                 transcripts[i].transcript.Status = Transcribing

\* a call has returned after its upload failed
C4_Witness ==
    \E c \in Calls :
        /\ Failed(c, "UploadData")
        /\ HasReturned(c)
        /\ Len(transcripts) > 0

\* C5: when persistence and upload succeed and StartTranscriptionJob fails,
\* the call returns the provider's failure, GetTranscriptJob still finds the
\* record of the call with Status Transcribing, and the uploaded audio is
\* still in the blob store.
C5_ProviderFailureKeepsRecordAndBlob ==
    \A c \in Calls :
        Failed(c, "StartTranscriptionJob") =>
            LET job == call[c].transcriptionJob
                got == GetTranscriptJob(transcripts, job.JobID)
            IN  /\ Succeeded(c, "AddTranscriptToSession")
                /\ Succeeded(c, "UploadData")
                /\ HasReturned(c)
                /\ call[c].result.isNil
                /\ call[c].err # NoErr
                /\ call[c].err \in Answers(c, "StartTranscriptionJob")
                /\ got.err = NoErr
                /\ ~got.isNil
                /\ got.val = job
                /\ got.val.Status = Transcribing
                /\ <<bucket, Base(job.AudioLocation)>> \in DOMAIN files
                /\ files[<<bucket, Base(job.AudioLocation)>>] = call[c].audioFile

\* a call has returned after the provider refused its job
C5_Witness ==
    \E c \in Calls :
        /\ Failed(c, "StartTranscriptionJob")
        /\ HasReturned(c)
        /\ DOMAIN files # {}

\* the call has returned a Transcript and no error
ReturnedJob(c) ==
    /\ HasReturned(c)
    /\ ~call[c].result.isNil
    /\ call[c].err = NoErr

C7_NoRetryFirstFailureReturned ==
    \A c \in Calls :
        LET ev == call[c].events IN
        /\ \A i \in 1..Len(SubmitOrder) : CallCount(c, SubmitOrder[i]) <= 1
        /\ \A i \in 1..Len(ev) :
             (ev[i].kind = "return" /\ ev[i].err # NoErr) =>
                 /\ i = Len(ev)
                 /\ HasReturned(c)
                 /\ call[c].result.isNil
                 /\ call[c].err = ev[i].err
                 /\ Is(call[c].err, ev[i].err)
        /\ (HasReturned(c) /\ call[c].err # NoErr) =>
               (ev # <<>> /\ ev[Len(ev)].err = call[c].err)

\* calls have failed at two different steps
C7_Witness ==
    \E c, d \in Calls :
        /\ Failed(c, "AddTranscriptToSession")
        /\ Failed(d, "StartTranscriptionJob")
        /\ HasReturned(c) /\ HasReturned(d)

\* C8: with u1, u2, u3 the identifiers drawn by a call, the Transcript it
\* persists and returns has JobID "{sessionID}-{u1}", AudioLocation
\* "{userID}/{campaignID}/{sessionID}/audio-{u2}" and TranscriptLocation
\* "{userID}/{campaignID}/{sessionID}/transcript-{u3}".
C8_HierarchicalNames ==
    \A c \in Calls :
        call[c].pc # "idle" =>
            LET job == call[c].transcriptionJob
                prefix == call[c].userID \o <<"/">> \o call[c].campaignID
                              \o <<"/">> \o call[c].sessionID \o <<"/">>
            IN  /\ job.JobID = call[c].sessionID \o <<"-">> \o call[c].uuids[1]
                /\ job.AudioLocation = prefix \o <<"audio-">> \o call[c].uuids[2]
                /\ job.TranscriptLocation =
                       prefix \o <<"transcript-">> \o call[c].uuids[3]

\* C9: every record SubmitTranscriptionJob creates is persisted and returned
\* with Status Transcribing and an empty SummaryLocation.
C9_CreatedTranscribing ==
    /\ \A i \in 1..Len(transcripts) :
         /\ transcripts[i].transcript.Status = Transcribing
         /\ transcripts[i].transcript.SummaryLocation = <<>>
    /\ \A c \in Calls :
         ~call[c].result.isNil =>
             /\ call[c].result.val.Status = Transcribing
             /\ call[c].result.val.SummaryLocation = <<>>

\* a record is persisted and a call has returned its Transcript
C9_Witness ==
    /\ Len(transcripts) > 0
    /\ \E c \in Calls : ReturnedJob(c)

\* C10: after a successful SubmitTranscriptionJob, DownloadData of the bucket
\* and the returned AudioLocation yields exactly the bytes that were submitted.
C10_AudioRetrievable ==
    \A c \in Calls :
        ReturnedJob(c) =>
            DownloadData(files, bucket, call[c].result.val.AudioLocation) =
                [n |-> Len(call[c].audioFile), data |-> call[c].audioFile,
                 err |-> NoErr]

\* two calls have succeeded with different audio
C10_Witness ==
    \E c, d \in Calls :
        /\ ReturnedJob(c) /\ ReturnedJob(d)
        /\ call[c].audioFile # call[d].audioFile

\* the provider has answered the call
ProviderAnswered(c) == Answers(c, "StartTranscriptionJob") # {}

\* C11: a call that reaches the provider step hands it the job of the record
\* it persisted: job name = JobID, input = AudioLocation, output =
\* TranscriptLocation, format = the audioFormat argument; a job the provider
\* accepted carries that name and output key; and a Transcript returned on
\* success equals the record handed to the persistence collaborator.
C11_StartsThePersistedJob ==
    /\ \A c \in Calls :
         ProviderAnswered(c) =>
             \E i \in 1..Len(transcripts) :
                 LET row == transcripts[i].transcript IN
                 /\ transcripts[i].SessionId = call[c].sessionID
                 /\ call[c].capturedArgs.jobName = row.JobID
                 /\ call[c].capturedArgs.audioLocation = row.AudioLocation
                 /\ call[c].capturedArgs.resultLocation = row.TranscriptLocation
                 /\ call[c].capturedArgs.audioFormat = call[c].audioFormat
                 /\ row.AudioFormat = call[c].audioFormat
                 /\ ReturnedJob(c) => call[c].result.val = row
    /\ \A j \in jobs :
         \E i \in 1..Len(transcripts) :
             /\ j.TranscriptionJobName = transcripts[i].transcript.JobID
             /\ j.OutputKey = transcripts[i].transcript.TranscriptLocation
             /\ j.MediaFormat =
                    audioFormatToMediaString(transcripts[i].transcript.AudioFormat).val

\* the provider has accepted the job of one call and refused that of another,
\* the two calls having different formats
C11_Witness ==
    \E c, d \in Calls :
        /\ ReturnedJob(c)
        /\ Failed(d, "StartTranscriptionJob")
        /\ call[c].audioFormat # call[d].audioFormat

\* C12: with an identifier source that never repeats, every interleaving of
\* calls (two calls with the same arguments for the same session included)
\* leaves one record per call that persisted, all JobIDs pairwise distinct;
\* no call's record is merged with or overwritten by another's.
C12_IndependentRecords ==
    /\ \A i, j \in 1..Len(transcripts) :
         i # j => transcripts[i].transcript.JobID # transcripts[j].transcript.JobID
    /\ Len(transcripts) =
           Cardinality({c \in Calls : Succeeded(c, "AddTranscriptToSession")})
    /\ \A c \in Calls :
         Succeeded(c, "AddTranscriptToSession") => RecordOfCallStored(c)

\* two calls with the same arguments are in flight together after both have
\* persisted
C12_Witness ==
    \E c, d \in Calls :
        /\ c # d
        /\ call[c].sessionID = call[d].sessionID
        /\ call[c].audioFormat = call[d].audioFormat
        /\ call[c].audioFile = call[d].audioFile
        /\ call[c].pc = "upload" /\ call[d].pc = "upload"
        /\ Len(transcripts) = 2

\* a step that served a read request
ReadServed == reply'.op # "none"

\* a step in which call c came back from the persistence store
PersistStep(c) == call[c].pc = "persist" /\ call'[c].pc # "persist"

\* C13: no orchestrator operation changes an already-persisted Transcript:
\* GetTranscriptJob, GetTranscriptsForSession and DownloadTranscript leave the
\* store as it was, and a step of SubmitTranscriptionJob leaves every stored
\* row as it was and adds at most one row, the record of the call itself.
C13_ExistingRecordsUntouched ==
    [][/\ Len(transcripts') >= Len(transcripts)
       /\ \A i \in 1..Len(transcripts) : transcripts'[i] = transcripts[i]
       /\ ReadServed => transcripts' = transcripts
       /\ Len(transcripts') <= Len(transcripts) + 1
       /\ Len(transcripts') = Len(transcripts) + 1 =>
              \E c \in Calls :
                  /\ PersistStep(c)
                  /\ transcripts'[Len(transcripts')].transcript =
                         call[c].transcriptionJob]_vars

\* a download was served from a store of two records, the second of which was
\* added while the first was there, and one of the two submissions failed
C13_Witness ==
    /\ Len(transcripts) = 2
    /\ \E c \in Calls : Failed(c, "UploadData")
    /\ reply.op = "DownloadTranscript"
    /\ reply.err = NoErr

\* C15: SubmitTranscriptionJob passes the caller's context to all three
\* collaborator calls, so a cancellation that arrives after the record was
\* persisted aborts the upload or the provider call in flight: an upload
\* cancelled in flight does not complete, no provider job is started once the
\* context is done, and a provider call cancelled in flight does not complete.
C15_CancellationAborts ==
    \A c \in Calls :
        /\ call[c].ctxDoneAt = "upload" => ~Succeeded(c, "UploadData")
        /\ call[c].ctxDoneAt \in {"upload", "start"} =>
               ~Succeeded(c, "StartTranscriptionJob")

\* the read request just served was DownloadTranscript
Downloaded == reply.op = "DownloadTranscript"

\* the stored record of the job the read request asked for
Asked == GetTranscript(transcripts, reply.arg)

\* the key of the transcript blob of the job the read request asked for
AskedKey == <<bucket, Asked.val.TranscriptLocation>>

C17_TranscribingConflicts ==
    (/\ Downloaded
     /\ reply.lookupErr = NoErr
     /\ Asked.val.Status = Transcribing) =>
        /\ Is(reply.err, Conflicted)
        /\ reply.downloadCalls = 0

\* C18: when DownloadTranscript's lookup fails (EntityNotFound for a job that
\* has no record, or any failure of the store) it returns that error with
\* byte count 0 and the blob store is not called; when the lookup succeeds
\* and the fetch fails it returns the blob store's error with byte count 0.
C18_DownloadFailures ==
    Downloaded =>
        /\ (Asked.isNil /\ reply.lookupErr # dbError) =>
               Is(reply.lookupErr, EntityNotFound)
        /\ reply.lookupErr # NoErr =>
               /\ reply.err = reply.lookupErr
               /\ reply.n = 0
               /\ reply.downloadCalls = 0
        /\ (reply.lookupErr = NoErr /\ reply.fetchErr # NoErr) =>
               /\ reply.err = reply.fetchErr
               /\ reply.n = 0
        /\ (reply.lookupErr = NoErr /\ AskedKey \notin DOMAIN files) =>
               reply.fetchErr # NoErr

\* the fetch failed after a byte had reached the sink: the count returned is 0
C18_Witness ==
    /\ Downloaded
    /\ reply.lookupErr = NoErr
    /\ reply.fetchErr = fileStoreError
    /\ reply.err = fileStoreError
    /\ Len(reply.data) = 1
    /\ reply.n = 0

\* the read request just served was GetTranscriptJob and the store answered
GotJob == reply.op = "GetTranscriptJob" /\ reply.lookupErr # dbError

\* C19: GetTranscriptJob for a jobID that has no persisted record returns an
\* error of the EntityNotFound kind and no record, and the HTTP layer answers
\* 404; for a persisted jobID it returns that record (and the HTTP layer 200
\* with the record's id and status).
C19_NotFoundKind ==
    GotJob =>
        IF RowsOfJob(transcripts, reply.arg) = {}
        THEN /\ Is(reply.err, EntityNotFound)
             /\ reply.isNil
             /\ reply.code = 404
        ELSE /\ reply.err = NoErr
             /\ ~reply.isNil
             /\ reply.val.JobID = reply.arg
             /\ \E i \in 1..Len(transcripts) : transcripts[i].transcript = reply.val
             /\ reply.code = 200
             /\ reply.body = <<[ID |-> reply.arg, Status |-> "Transcribing"]>>

\* a job id without a record was asked for while another job had one
C19_Witness ==
    /\ GotJob
    /\ transcripts # <<>>
    /\ RowsOfJob(transcripts, reply.arg) = {}
    /\ reply.code = 404

\* the read request just served was GetTranscriptsForSession and the store
\* answered
GotSession == reply.op = "GetTranscriptsForSession" /\ reply.lookupErr # dbError

\* C20: GetTranscriptsForSession for a session with zero transcripts returns
\* an empty list and no error, and the HTTP list endpoint answers 200 with an
\* empty array.
C20_EmptySession ==
    (/\ GotSession
     /\ \A i \in 1..Len(transcripts) : transcripts[i].SessionId # reply.arg) =>
        /\ reply.err = NoErr
        /\ ~reply.isNil
        /\ reply.list = <<>>
        /\ reply.code = 200
        /\ reply.body = <<>>

\* a session without transcripts was listed while the other session had one
C20_Witness ==
    /\ GotSession
    /\ transcripts # <<>>
    /\ \A i \in 1..Len(transcripts) : transcripts[i].SessionId # reply.arg
    /\ reply.list = <<>>
    /\ reply.code = 200

\* the defined values whose name, letter case aside, is str
Named(table, str) ==
    {x \in 0..(Len(table) - 1) : ToLower(table[x + 1]) = ToLower(str)}

\* C21: for every defined AudioFormat value x, AudioFormatFromString of the
\* name of x, in any letter case, succeeds and returns x, and the String of
\* what it returned is the name of x again.
C21_AudioFormatRoundTrip ==
    reply.op = "AudioFormatFromString" =>
        \A x \in Named(audioFormatStrings, reply.arg) :
            /\ reply.err = NoErr
            /\ reply.n = x
            /\ reply.data = audioFormatStrings[x + 1]

\* "webm" was parsed to WebM, whose String is "WebM"
C21_Witness ==
    /\ reply.op = "AudioFormatFromString"
    /\ reply.arg = "webm"
    /\ reply.n = WebM
    /\ reply.data = "WebM"

\* C22: parsing a string that names no AudioFormat, and likewise one that
\* names no status, fails, and the failure is of the InvalidEntity kind.
C22_InvalidNamesAreInvalidEntity ==
    /\ (reply.op = "AudioFormatFromString"
        /\ Named(audioFormatStrings, reply.arg) = {}) =>
           reply.err # NoErr /\ Is(reply.err, InvalidEntity)
    /\ (reply.op = "TranscriptStatusFromString"
        /\ Named(transcriptStatusStrings, reply.arg) = {}) =>
           reply.err # NoErr /\ Is(reply.err, InvalidEntity)

\* C23: for every defined status s, TranscriptStatusFromString of the name of
\* s returns s, in any letter case of the name: "done", "Done" and "DONE" all
\* parse to Done.
C23_StatusRoundTrip ==
    reply.op = "TranscriptStatusFromString" =>
        /\ \A x \in Named(transcriptStatusStrings, reply.arg) :
               /\ reply.err = NoErr
               /\ reply.n = x
               /\ reply.data = transcriptStatusStrings[x + 1]
        /\ reply.arg \in {"done", "Done", "DONE"} => reply.n = Done

\* "DONE" was parsed to Done
C23_Witness ==
    /\ reply.op = "TranscriptStatusFromString"
    /\ reply.arg = "DONE"
    /\ reply.err = NoErr
    /\ reply.n = Done

\* the error at the end of the chain of wraps
Innermost(err) == <<err[Len(err)]>>

\* C24: the HTTP layer maps a failure to one status code: 404 when the error
\* is or wraps EntityNotFound, 422 for InvalidEntity, 409 for Conflicted or
\* EntityAlreadyExists, 500 for every other error.
C24_StatusCodes ==
    reply.op = "handleError" =>
        reply.code =
            (CASE Innermost(reply.err) = EntityNotFound -> 404
               [] Innermost(reply.err) = InvalidEntity -> 422
               [] Innermost(reply.err) \in {Conflicted, EntityAlreadyExists} -> 409
               [] OTHER -> 500)

\* a wrapped Conflicted was answered with 409
C24_Witness ==
    /\ reply.op = "handleError"
    /\ reply.err = <<"get transcript">> \o Conflicted
    /\ reply.code = 409

\* C27: StartTranscriptionJob given an audio format outside the seven defined
\* ones returns an error to its caller: it does not panic, and no job is
\* started.
C27_BadFormatIsAnError ==
    (reply.op = "StartTranscriptionJob" /\ reply.arg.audioFormat \notin 0..6) =>
        /\ ~reply.panicked
        /\ reply.err # NoErr
        /\ jobs = {}

\* the object an s3 URI names: s3://bucket/key
ObjectOfUri(uri) == <<<<uri[4]>>, SubSeq(uri, 6, Len(uri))>>

\* the call has returned a Transcript and no error
Submitted(c) == HasReturned(c) /\ call[c].err = NoErr

\* C26: the identifier generator exposes no failure: when its source fails
\* the process stops, so no record built from a failed generation is
\* persisted.
C26_NoRecordFromFailedGenerator ==
    \A i \in 1..Len(transcripts) :
        /\ transcripts[i].transcript.JobID # NilUUID
        /\ transcripts[i].transcript.AudioLocation # <<"audio-">> \o NilUUID
        /\ transcripts[i].transcript.TranscriptLocation #
               <<"transcript-">> \o NilUUID

\* C28: in the wiring of main, after a successful SubmitTranscriptionJob the
\* object the provider was told to read as its media is the object UploadData
\* wrote the audio to: the same bucket and the same key.
C28_ProviderReadsTheUpload ==
    \A c \in Calls :
        Submitted(c) =>
            \E j \in jobs :
                /\ j.TranscriptionJobName = call[c].transcriptionJob.JobID
                /\ ObjectOfUri(j.MediaFileUri) =
                       <<bucket, Base(call[c].transcriptionJob.AudioLocation)>>

\* C29: for every SubmitTranscriptionJob call, whatever the identifier source
\* returns, the record's AudioLocation and TranscriptLocation differ, and so
\* do the key the audio is uploaded under and the key the provider writes to.
C29_LocationsDiffer ==
    \A c \in Calls :
        call[c].pc # "idle" =>
            /\ call[c].transcriptionJob.AudioLocation #
                   call[c].transcriptionJob.TranscriptLocation
            /\ Base(call[c].transcriptionJob.AudioLocation) #
                   call[c].transcriptionJob.TranscriptLocation

\* a call whose three identifiers were the same value was submitted
C29_Witness ==
    \E c \in Calls :
        /\ Submitted(c)
        /\ call[c].uuids = <<<<"testUUID">>, <<"testUUID">>, <<"testUUID">>>>

\* the content types the submit endpoint takes
AudioContentTypes == {"audio/mpeg", "audio/ogg", "audio/webm"}

\* the audio format the specification gives a content type
FormatOfContentType(contentType) ==
    CASE contentType = "audio/mpeg" -> MP3
      [] contentType = "audio/ogg" -> OGG
      [] contentType = "audio/webm" -> WebM

\* C25: the submit endpoint calls SubmitTranscriptionJob only for the content
\* types audio/mpeg, audio/ogg and audio/webm, with the formats MP3, OGG and
\* WebM; any other content type is answered 422 without a call of
\* SubmitTranscriptionJob, so no record, blob or provider job is created.
C25_ContentTypeDecides ==
    [][/\ \A c \in Calls :
              (call[c].pc = "idle" /\ call'[c].pc # "idle")
                  => /\ reply'.arg \in AudioContentTypes
                     /\ call'[c].audioFormat = FormatOfContentType(reply'.arg)
                     /\ reply'.responses = <<>>
       /\ (reply'.op = "SubmitTranscriptionJob"
              /\ reply'.arg \notin AudioContentTypes)
                  => /\ reply'.responses = <<422>>
                     /\ reply'.managerCalls = 0
                     /\ UNCHANGED <<transcripts, files, jobs, uuidCount, call>>
      ]_vars

\* an audio/wav submission has been turned away after an audio/ogg one went
\* through as OGG
C25_Witness ==
    /\ reply.op = "SubmitTranscriptionJob"
    /\ reply.arg = "audio/wav"
    /\ reply.responses = <<422>>
    /\ \E c \in Calls :
           /\ Submitted(c)
           /\ call[c].audioFormat = OGG
           /\ transcripts # <<>>

\* the create handlers
CreateHandlers == {"AddUser", "AddCampaign", "AddSession"}

\* C30: a create handler (AddUser, AddCampaign, AddSession) that fails to
\* decode the request body answers 422 exactly once and does not call its
\* manager: nothing is created and no second response is written.
C30_UndecodableIsRefusedOnce ==
    (reply.op \in CreateHandlers /\ reply.decodeErr # NoErr)
        => /\ reply.responses = <<422>>
           /\ reply.managerCalls = 0
           /\ reply.created = <<>>

====
